---- MODULE Spec2Model ----
(***************************************************************************)
(* Model of the event-banner / transition-scheduling helpers of            *)
(* react/src/js/components/Consonant/Helpers/general.js:                   *)
(*   isDateWithinInterval, isDateBeforeInterval, the differential ticker,  *)
(*   getCurrentDate, getEventBanner and getTransitions,                    *)
(* together with the MinPriorityQueue that getTransitions fills.           *)
(*                                                                         *)
(* Instants are integers in milliseconds since the epoch.  A JavaScript    *)
(* Number that may be NaN or may exceed 32 bits (the timestamp of a year   *)
(* far from 1970) is a record [nan, day, ms] standing for                  *)
(* day * 86400000 + ms with 0 <= ms < 86400000.                            *)
(* Date.parse follows V8 (ISO form first, then the legacy parser); the     *)
(* host time zone is UTC.                                                  *)
(***************************************************************************)
EXTENDS Integers, Sequences, FiniteSets, TLC

VARIABLES
    search,        \* the servertime parameter of window.location.search
    differential,  \* let differential
    ticks,         \* firings of the setInterval ticker since load
    wallClock,     \* the instant new Date() reads
    cards,         \* the caller's array handed to getTransitions
    queues,        \* the queues the caller holds: the previous and the current one
    ret            \* the most recent call and what it returned

vars == <<search, differential, ticks, wallClock, cards, queues, ret>>

(***************************************************************************)
(* Bounds of the model.                                                    *)
(***************************************************************************)
MaxTicks == 2
MaxCards == 2
MaxWallSteps == 2

(***************************************************************************)
(* JavaScript Numbers.                                                     *)
(***************************************************************************)
DayMs == 24 * 60 * 60 * 1000

NaN == [nan |-> TRUE, day |-> 0, ms |-> 0]

Norm(d, m) == [nan |-> FALSE, day |-> d + (m \div DayMs), ms |-> m % DayMs]

Num(n) == Norm(0, n)

NumSub(a, b) == IF a.nan \/ b.nan THEN NaN ELSE Norm(a.day - b.day, a.ms - b.ms)

NumLt(a, b) ==
    /\ ~a.nan
    /\ ~b.nan
    /\ \/ a.day < b.day
       \/ a.day = b.day /\ a.ms < b.ms

NumLe(a, b) ==
    /\ ~a.nan
    /\ ~b.nan
    /\ \/ a.day < b.day
       \/ a.day = b.day /\ a.ms <= b.ms

Truthy(a) == ~a.nan /\ ~(a.day = 0 /\ a.ms = 0)

(***************************************************************************)
(* Date.parse.  A date-like value is a record [kind, t]:                   *)
(*   "iso"     an ISO-8601 string with milliseconds naming the instant t,  *)
(*   "date"    a Date object whose time value is t,                        *)
(*   "invalid" a non-empty string that is no date,                         *)
(*   "absent"  undefined, null or the empty string.                        *)
(* Date.parse converts its argument to a string first.  Date.prototype     *)
(* .toString prints whole seconds, so a Date object parses back to the     *)
(* start of its second.                                                    *)
(***************************************************************************)
DateParse(x) ==
    CASE x.kind = "iso" -> Num(x.t)
      [] x.kind = "date" -> Num(x.t - (x.t % 1000))
      [] OTHER -> NaN

IsTruthyDate(x) == x.kind # "absent"

(* Days from 1970-01-01 to the civil date y-m-d (proleptic Gregorian).     *)
DaysFromCivil(y, m, d) ==
    LET yy == IF m <= 2 THEN y - 1 ELSE y
        era == yy \div 400
        yoe == yy - era * 400
        mp == IF m > 2 THEN m - 3 ELSE m + 9
        doy == ((153 * mp + 2) \div 5) + d - 1
        doe == yoe * 365 + (yoe \div 4) - (yoe \div 100) + doy
    IN  era * 146097 + doe - 719468

(* MakeDate + TimeClip at midnight UTC: NaN outside +-100,000,000 days.    *)
MakeDate(y, m, d) ==
    LET days == DaysFromCivil(y, m, d)
    IN  IF days < -100000000 \/ days > 100000000
        THEN NaN
        ELSE [nan |-> FALSE, day |-> days, ms |-> 0]

(* The legacy parser on a single unsigned numeral a (a sign before the     *)
(* first number is skipped): 1..12 is a month of 2001, 13..31 is no date,  *)
(* 0 and 32..49 are years 20xx, 50..99 are years 19xx, anything else is    *)
(* that year.                                                              *)
LegacyNumeral(a) ==
    CASE a >= 1 /\ a <= 12 -> MakeDate(2001, a, 1)
      [] a >= 13 /\ a <= 31 -> NaN
      [] a = 0 \/ (a >= 32 /\ a <= 49) -> MakeDate(2000 + a, 1, 1)
      [] a >= 50 /\ a <= 99 -> MakeDate(1900 + a, 1, 1)
      [] a > 275760 -> NaN
      [] OTHER -> MakeDate(a, 1, 1)

(* Date.parse of a Number: the Number is printed in decimal and the digits *)
(* are read as a date.  Four digits are an ISO year, a sign and six digits *)
(* an ISO expanded year, everything else goes to the legacy parser.        *)
DateParseNumber(n) ==
    IF n.nan THEN NaN
    ELSE IF n.day > 0 \/ n.day < -1 THEN NaN
    ELSE LET v == n.day * DayMs + n.ms
             a == IF v < 0 THEN -v ELSE v
         IN  CASE v >= 1000 /\ v <= 9999 -> MakeDate(v, 1, 1)
               [] v < 0 /\ a >= 100000 /\ a <= 999999 ->
                    IF a > 275760 THEN NaN ELSE MakeDate(v, 1, 1)
               [] OTHER -> LegacyNumeral(a)

(***************************************************************************)
(* Input domains.                                                          *)
(***************************************************************************)
Iso(t) == [kind |-> "iso", t |-> t]

DateObject(t) == [kind |-> "date", t |-> t]

InvalidDate == [kind |-> "invalid", t |-> 0]

AbsentDate == [kind |-> "absent", t |-> 0]

(* The servertime query parameter: absent, text without leading digits,    *)
(* digits, or digits followed by text.                                     *)
Searches ==
    {[kind |-> "absent", v |-> 0], [kind |-> "text", v |-> 0],
     [kind |-> "num", v |-> 0], [kind |-> "num", v |-> 1000],
     [kind |-> "num", v |-> 1500], [kind |-> "numtext", v |-> 2000]}

WallInstants == {1000 + 250 * k : k \in 0..MaxWallSteps}

(* Instants used for the arguments of the interval functions.              *)
Instants == {999, 1000, 1001, 1500, 2000, 2500}

DateInputs == {Iso(t) : t \in Instants} \cup {InvalidDate, AbsentDate}

CurrentDateInputs ==
    {Iso(t) : t \in Instants} \cup {DateObject(t) : t \in Instants} \cup {InvalidDate}

BannerMaps ==
    {[live |-> "live", upcoming |-> "upcoming", onDemand |-> "onDemand"],
     [live |-> "Live Now", upcoming |-> "Soon", onDemand |-> "Watch"]}

StartDates == {Iso(2000), Iso(2500), InvalidDate, AbsentDate}

EndDates == {Iso(2000), Iso(2020), Iso(5000), Iso(400000), InvalidDate, AbsentDate}

Items == [startDate : StartDates, endDate : EndDates]

CardSeqs == UNION {[1..n -> Items] : n \in 0..MaxCards}

(***************************************************************************)
(* isDateWithinInterval, isDateBeforeInterval.                             *)
(***************************************************************************)
isDateWithinInterval(currentDate, startDate, endDate) ==
    LET curr == DateParse(currentDate)
        start == DateParse(startDate)
        end == DateParse(endDate)
    IN  NumLe(start, curr) /\ NumLe(curr, end)

isDateBeforeIntervalNegated(currentDate, startDate) ==
    ~NumLe(DateParse(startDate), DateParse(currentDate))

isDateBeforeInterval(currentDate, startDate) ==
    LET curr == DateParse(currentDate)
        start == DateParse(startDate)
    IN  NumLt(curr, start)

(***************************************************************************)
(* The clock: differential, its ticker, getCurrentDate.                    *)
(***************************************************************************)
incrementDifferentialByOne(d) == d + 1

incrementDifferential(d) == d + 1000

(* parseInt(urlParams.get('servertime'), 10) *)
ParseInt(p) ==
    IF p.kind \in {"num", "numtext"}
    THEN [nan |-> FALSE, v |-> p.v]
    ELSE [nan |-> TRUE, v |-> 0]

getCurrentDateAlwaysOffset(srch, diff, wall) ==
    LET servertime == ParseInt(srch)
    IN  IF ~servertime.nan /\ servertime.v # 0
        THEN DateObject(servertime.v + diff)
        ELSE DateObject(wall + diff)

getCurrentDate(srch, diff, wall) ==
    LET servertime == ParseInt(srch)
    IN  IF ~servertime.nan /\ servertime.v # 0
        THEN DateObject(servertime.v + diff)
        ELSE DateObject(wall)

(***************************************************************************)
(* getEventBanner.                                                         *)
(***************************************************************************)
getEventBanner(currDate, startDate, endDate, bannerMap) ==
    IF isDateWithinInterval(currDate, startDate, endDate)
    THEN bannerMap.live
    ELSE IF isDateBeforeInterval(currDate, startDate)
         THEN bannerMap.upcoming
         ELSE bannerMap.onDemand

(***************************************************************************)
(* MinPriorityQueue.  general.js only constructs the queue and enqueues     *)
(* into it; the queue's own code is an imported package.  Its dequeue is   *)
(* taken from the specification of the queue ("the queue's pop order is    *)
(* ascending priority", "pop-minimum"): the entries are kept in insertion  *)
(* order and dequeue removes an entry that no other entry is strictly      *)
(* below (which one among equal priorities is left open).  Ascending pops  *)
(* then rest on what getTransitions enqueues: every priority must be a     *)
(* number that compares, which the guards of lines 499 and 503 decide.     *)
(***************************************************************************)
Zero == Num(0)

Enqueue(q, element, priority) ==
    Append(q, [element |-> element, priority |-> priority])

RemoveAt(q, i) == [j \in 1..(Len(q) - 1) |-> IF j < i THEN q[j] ELSE q[j + 1]]

IsMin(q, i) == \A j \in 1..Len(q) : ~NumLt(q[j].priority, q[i].priority)

(***************************************************************************)
(* getTransitions.  An event's element is the index of the card it refers  *)
(* to (the copy [...cardsPtr] holds the same objects), or 0 for null.      *)
(***************************************************************************)
StartDueTruthyOnly(priority) == Truthy(priority)

(* if (!(priority <= 0)): lets a NaN priority through. *)
StartDueNotPast(priority) == ~NumLe(priority, Zero)

StartDue(priority) == Truthy(priority) /\ NumLt(Zero, priority)

EndDue(endDate, endPriority) == IsTruthyDate(endDate) /\ NumLt(Zero, endPriority)

StartPriorityFromEnd(card, currentDate) ==
    NumSub(DateParse(card.endDate), Num(currentDate.t))

StartPriority(card, currentDate) ==
    NumSub(DateParse(card.startDate), Num(currentDate.t))

EndPrioritySingleParse(card, currentDate) ==
    NumSub(DateParse(card.endDate), Num(currentDate.t))

EndPriority(card, currentDate) ==
    DateParseNumber(NumSub(DateParse(card.endDate), Num(currentDate.t)))

RECURSIVE TransitionsLoop(_, _, _, _)
TransitionsLoop(cardsCopy, currentDate, i, transitions) ==
    IF i > Len(cardsCopy) THEN transitions
    ELSE LET priority == StartPriority(cardsCopy[i], currentDate)
             afterStart == IF StartDue(priority)
                           THEN Enqueue(transitions, i, priority)
                           ELSE transitions
             endPriority == EndPriority(cardsCopy[i], currentDate)
             afterEnd == IF EndDue(cardsCopy[i].endDate, endPriority)
                         THEN Enqueue(afterStart, 0, endPriority)
                         ELSE afterStart
         IN  TransitionsLoop(cardsCopy, currentDate, i + 1, afterEnd)

getTransitions(cardsPtr, currentDate) ==
    TransitionsLoop(cardsPtr, currentDate, 1, <<>>)

(***************************************************************************)
(* State machine.                                                          *)
(***************************************************************************)
NoCall == [op |-> "none"]

Init ==
    /\ search \in Searches
    /\ differential = 0
    /\ ticks = 0
    /\ wallClock \in WallInstants
    /\ cards \in CardSeqs
    /\ queues = <<>>
    /\ ret = NoCall

(* setInterval(incrementDifferential, 1000) fires. *)
Tick ==
    /\ ticks < MaxTicks
    /\ differential' = incrementDifferential(differential)
    /\ ticks' = ticks + 1
    /\ UNCHANGED <<search, wallClock, cards, queues, ret>>

(* Real time passes. *)
WallAdvance ==
    /\ \E w \in WallInstants : w > wallClock /\ wallClock' = w
    /\ UNCHANGED <<search, differential, ticks, cards, queues, ret>>

CallGetCurrentDate ==
    /\ ret' = [op |-> "getCurrentDate",
               result |-> getCurrentDate(search, differential, wallClock),
               ticks |-> ticks,
               wall |-> wallClock]
    /\ UNCHANGED <<search, differential, ticks, wallClock, cards, queues>>

CallIsDateWithinInterval ==
    /\ \E c \in CurrentDateInputs, s \in DateInputs, e \in DateInputs :
          ret' = [op |-> "isDateWithinInterval",
                  currentDate |-> c, startDate |-> s, endDate |-> e,
                  result |-> isDateWithinInterval(c, s, e)]
    /\ UNCHANGED <<search, differential, ticks, wallClock, cards, queues>>

CallIsDateBeforeInterval ==
    /\ \E c \in CurrentDateInputs, s \in DateInputs :
          ret' = [op |-> "isDateBeforeInterval",
                  currentDate |-> c, startDate |-> s,
                  result |-> isDateBeforeInterval(c, s)]
    /\ UNCHANGED <<search, differential, ticks, wallClock, cards, queues>>

CallGetEventBanner ==
    /\ \E s \in DateInputs, e \in DateInputs, m \in BannerMaps :
          LET currDate == getCurrentDate(search, differential, wallClock)
          IN  ret' = [op |-> "getEventBanner",
                      now |-> currDate.t, startDate |-> s, endDate |-> e,
                      bannerMap |-> m,
                      result |-> getEventBanner(currDate, s, e, m)]
    /\ UNCHANGED <<search, differential, ticks, wallClock, cards, queues>>

(* The caller either replaces the queue it holds by the new one, or keeps   *)
(* the previous queue beside it.                                           *)
Held(qs, keepPrevious) ==
    IF keepPrevious /\ qs # <<>> THEN <<qs[Len(qs)]>> ELSE <<>>

GetTransitionsCallConsuming(keepPrevious) ==
    /\ LET currentDate == getCurrentDate(search, differential, wallClock)
           transitions == getTransitions(cards, currentDate)
       IN  /\ queues' = Append(Held(queues, keepPrevious),
                               [items |-> transitions, popped |-> <<>>])
           /\ ret' = [op |-> "getTransitions", now |-> currentDate.t,
                      cardsPtr |-> cards, result |-> transitions]
    /\ cards' = IF cards = <<>> THEN cards ELSE Tail(cards)
    /\ UNCHANGED <<search, differential, ticks, wallClock>>

GetTransitionsCall(keepPrevious) ==
    /\ LET currentDate == getCurrentDate(search, differential, wallClock)
           transitions == getTransitions(cards, currentDate)
       IN  /\ queues' = Append(Held(queues, keepPrevious),
                               [items |-> transitions, popped |-> <<>>])
           /\ ret' = [op |-> "getTransitions", now |-> currentDate.t,
                      cardsPtr |-> cards, result |-> transitions]
    /\ UNCHANGED <<search, differential, ticks, wallClock, cards>>

CallGetTransitions == GetTransitionsCall(FALSE)

CallGetTransitionsKeepingPrevious == GetTransitionsCall(TRUE)

(* The caller pops queue h (the queue's dequeue, as the specification     *)
(* states it). *)
Dequeue ==
    /\ \E h \in 1..Len(queues) :
          LET q == queues[h].items
          IN  /\ q # <<>>
              /\ \E i \in 1..Len(q) :
                    /\ IsMin(q, i)
                    /\ queues' = [queues EXCEPT ![h] =
                                    [items |-> RemoveAt(q, i),
                                     popped |-> Append(queues[h].popped, q[i])]]
                    /\ ret' = [op |-> "dequeue", handle |-> h, result |-> q[i]]
    /\ UNCHANGED <<search, differential, ticks, wallClock, cards>>

Next ==
    \/ Tick
    \/ WallAdvance
    \/ CallGetCurrentDate
    \/ CallIsDateWithinInterval
    \/ CallIsDateBeforeInterval
    \/ CallGetEventBanner
    \/ CallGetTransitions
    \/ CallGetTransitionsKeepingPrevious
    \/ Dequeue

Spec == Init /\ [][Next]_vars

(* The clock alone. *)
InitClock == Init /\ cards = <<>>

NextClock == Tick \/ WallAdvance \/ CallGetCurrentDate

SpecClock == InitClock /\ [][NextClock]_vars

(* The interval functions on their own. *)
InitInterval == InitClock /\ search.kind = "absent" /\ wallClock = 1000

NextInterval == CallIsDateWithinInterval \/ CallIsDateBeforeInterval

SpecInterval == InitInterval /\ [][NextInterval]_vars

(* getEventBanner under the clock. *)
NextBanner == Tick \/ WallAdvance \/ CallGetEventBanner

SpecBanner == InitClock /\ [][NextBanner]_vars

(* The transition scheduler under a server-time clock. *)
InitTransitions ==
    Init /\ wallClock = 1000 /\ search.kind = "num" /\ search.v \in {1000, 1500}

NextTransitions == Tick \/ CallGetTransitions \/ Dequeue

SpecTransitions == InitTransitions /\ [][NextTransitions]_vars

(* A caller that holds two queues at a time. *)
FrameItems ==
    {c \in Items : c.startDate = Iso(2500) /\ c.endDate \in {Iso(2000), Iso(5000), AbsentDate}}

InitFrame == InitTransitions /\ \A i \in 1..Len(cards) : cards[i] \in FrameItems

NextFrame == Tick \/ CallGetTransitionsKeepingPrevious \/ Dequeue

SpecFrame == InitFrame /\ [][NextFrame]_vars

(***************************************************************************)
(* Properties.                                                             *)
(***************************************************************************)
IsoAfter(d, now) == d.kind = "iso" /\ d.t > now

Positive(p) == ~p.nan /\ (p.day > 0 \/ (p.day = 0 /\ p.ms > 0))

EntriesOf(q, element) == {k \in 1..Len(q) : q[k].element = element}

(* C1: every event in a queue that getTransitions returned has a priority  *)
(* that is a number strictly greater than 0, start and end events alike.   *)
C1_PriorityPositive ==
    /\ ret.op = "getTransitions" =>
          \A k \in 1..Len(ret.result) : Positive(ret.result[k].priority)
    /\ \A h \in 1..Len(queues) :
          \A k \in 1..Len(queues[h].items) : Positive(queues[h].items[k].priority)

C1_Witness ==
    /\ ret.op = "getTransitions"
    /\ ticks > 0
    /\ EntriesOf(ret.result, 0) # {}
    /\ \E i \in 1..Len(cards) : EntriesOf(ret.result, i) # {}
    /\ \E i \in 1..Len(cards) :
          cards[i].startDate.kind = "iso" /\ cards[i].startDate.t <= ret.now

(* C2: the events popped from a queue come out with non-decreasing         *)
(* priorities, whatever the order of the cards was.                        *)
C2_PopOrder ==
    \A h \in 1..Len(queues) :
       LET popped == queues[h].popped
       IN  \A k \in 1..(Len(popped) - 1) :
              NumLe(popped[k].priority, popped[k + 1].priority)

C2_Witness ==
    /\ ret.op = "dequeue"
    /\ \E h \in 1..Len(queues) :
          LET popped == queues[h].popped
          IN  /\ queues[h].items = <<>>
              /\ Len(popped) >= 3
              /\ \E k \in 1..(Len(popped) - 1) :
                    /\ popped[k].element # 0
                    /\ popped[k + 1].element # 0
                    /\ popped[k].element > popped[k + 1].element

(* C3: with a non-zero numeric servertime, getCurrentDate returns          *)
(* servertime + differential, differential is 1000 times the number of     *)
(* ticks so far and never decreases, and successive results never go back. *)
C3_ServerClock ==
    /\ [](/\ differential = 1000 * ticks
          /\ (ret.op = "getCurrentDate" /\ search.kind \in {"num", "numtext"}
                /\ search.v # 0) =>
                ret.result = DateObject(search.v + 1000 * ret.ticks))
    /\ [][/\ differential' >= differential
          /\ (ret.op = "getCurrentDate" /\ ret'.op = "getCurrentDate"
                /\ search.kind \in {"num", "numtext"} /\ search.v # 0) =>
                ret'.result.t >= ret.result.t]_vars

C3_Witness ==
    /\ ret.op = "getCurrentDate"
    /\ search.kind = "num"
    /\ search.v = 1500
    /\ ret.ticks = 2
    /\ ret.result.t = 3500

(* C4 as claimed: isDateWithinInterval is true exactly when                *)
(* start <= now <= end, for every parseable now, start and end.            *)
C4_WithinIffBetween ==
    (/\ ret.op = "isDateWithinInterval"
     /\ ret.currentDate.kind \in {"iso", "date"}
     /\ ret.startDate.kind = "iso"
     /\ ret.endDate.kind = "iso") =>
        (ret.result <=>
            (ret.startDate.t <= ret.currentDate.t /\ ret.currentDate.t <= ret.endDate.t))

(* C5 as claimed: for start <= end, getEventBanner returns live exactly    *)
(* when start <= t <= end, upcoming exactly when t < start and onDemand    *)
(* exactly when t > end.                                                   *)
C5_BannerByInterval ==
    (/\ ret.op = "getEventBanner"
     /\ ret.startDate.kind = "iso"
     /\ ret.endDate.kind = "iso"
     /\ ret.startDate.t <= ret.endDate.t) =>
        /\ ret.result \in {ret.bannerMap.live, ret.bannerMap.upcoming, ret.bannerMap.onDemand}
        /\ ret.result = ret.bannerMap.live <=>
              (ret.startDate.t <= ret.now /\ ret.now <= ret.endDate.t)
        /\ ret.result = ret.bannerMap.upcoming <=> ret.now < ret.startDate.t
        /\ ret.result = ret.bannerMap.onDemand <=> ret.now > ret.endDate.t

(* C6: with an unparseable startDate getEventBanner returns                *)
(* bannerMap.onDemand, whatever the endDate and the current time are.      *)
C6_BadStartOnDemand ==
    (ret.op = "getEventBanner" /\ ret.startDate.kind \in {"invalid", "absent"}) =>
        ret.result = ret.bannerMap.onDemand

C6_Witness ==
    /\ ret.op = "getEventBanner"
    /\ ret.startDate.kind = "invalid"
    /\ ret.endDate.kind = "iso"
    /\ ret.now < ret.endDate.t
    /\ ticks > 0
    /\ ret.result = ret.bannerMap.onDemand

(* C7: with the servertime parameter missing or not numeric,               *)
(* getCurrentDate returns the wall-clock instant, whatever differential    *)
(* is.                                                                     *)
C7_WallClockFallback ==
    (ret.op = "getCurrentDate" /\ search.kind \in {"absent", "text"}) =>
        ret.result = DateObject(ret.wall)

C7_Witness ==
    /\ ret.op = "getCurrentDate"
    /\ search.kind = "text"
    /\ ret.ticks = 2
    /\ differential = 2000
    /\ ret.wall > 1000
    /\ ret.result.t = ret.wall

(* C8: getTransitions enqueues a start event for a card exactly when the   *)
(* card's startDate parses to an instant after now; the event refers to    *)
(* that card and its priority is startDate - now.                          *)
C8_StartEvents ==
    ret.op = "getTransitions" =>
        \A i \in 1..Len(ret.cardsPtr) :
           LET start == ret.cardsPtr[i].startDate
               mine == EntriesOf(ret.result, i)
           IN  /\ mine # {} <=> IsoAfter(start, ret.now)
               /\ Cardinality(mine) <= 1
               /\ \A k \in mine : ret.result[k].priority = Num(start.t - ret.now)

C8_Witness ==
    /\ ret.op = "getTransitions"
    /\ Len(ret.cardsPtr) = 2
    /\ ret.cardsPtr[1].startDate = Iso(2000)
    /\ ret.cardsPtr[1].endDate = AbsentDate
    /\ ret.cardsPtr[2].startDate = Iso(2500)
    /\ ret.now = 2000
    /\ EntriesOf(ret.result, 1) = {}
    /\ EntriesOf(ret.result, 2) # {}

(* C9 as claimed: a card whose startDate and endDate are both after now    *)
(* contributes its start event and no end event; so when every card is     *)
(* such a card, the queue holds one event per card.                        *)
C9_EndEventDead ==
    (/\ ret.op = "getTransitions"
     /\ \A i \in 1..Len(ret.cardsPtr) :
           /\ IsoAfter(ret.cardsPtr[i].startDate, ret.now)
           /\ IsoAfter(ret.cardsPtr[i].endDate, ret.now)) =>
        /\ Len(ret.result) = Len(ret.cardsPtr)
        /\ EntriesOf(ret.result, 0) = {}

(* C9 amended: a card whose startDate is after now contributes exactly one *)
(* start event, of priority startDate - now.  Its end event is dropped     *)
(* when endDate - now is more than 275760 ms (no year that large is a      *)
(* date) and is enqueued, with the timestamp of 1 January of the year      *)
(* endDate - now as its priority, when endDate - now is in 1971..9999.     *)
EndFar(c, now) == c.endDate.kind = "iso" /\ c.endDate.t - now > 275760

EndReadAsYear(c, now) ==
    c.endDate.kind = "iso" /\ c.endDate.t - now >= 1971 /\ c.endDate.t - now <= 9999

C9_EndEventByReparse ==
    ret.op = "getTransitions" =>
        /\ \A i \in 1..Len(ret.cardsPtr) :
              (/\ IsoAfter(ret.cardsPtr[i].startDate, ret.now)
               /\ IsoAfter(ret.cardsPtr[i].endDate, ret.now)) =>
                  \E k \in 1..Len(ret.result) :
                     /\ EntriesOf(ret.result, i) = {k}
                     /\ ret.result[k].priority =
                           Num(ret.cardsPtr[i].startDate.t - ret.now)
        /\ (\A i \in 1..Len(ret.cardsPtr) :
               /\ IsoAfter(ret.cardsPtr[i].startDate, ret.now)
               /\ EndFar(ret.cardsPtr[i], ret.now) \/ EndReadAsYear(ret.cardsPtr[i], ret.now)) =>
              /\ Cardinality(EntriesOf(ret.result, 0)) =
                    Cardinality({i \in 1..Len(ret.cardsPtr) :
                                    EndReadAsYear(ret.cardsPtr[i], ret.now)})
              /\ \A i \in 1..Len(ret.cardsPtr) :
                    EndReadAsYear(ret.cardsPtr[i], ret.now) =>
                       \E k \in EntriesOf(ret.result, 0) :
                          ret.result[k].priority =
                             [nan |-> FALSE,
                              day |-> DaysFromCivil(ret.cardsPtr[i].endDate.t - ret.now, 1, 1),
                              ms |-> 0]

C9_Witness ==
    /\ ret.op = "getTransitions"
    /\ ret.now = 1000
    /\ Len(ret.cardsPtr) = 2
    /\ ret.cardsPtr[1] = [startDate |-> Iso(2000), endDate |-> Iso(5000)]
    /\ ret.cardsPtr[2] = [startDate |-> Iso(2500), endDate |-> Iso(400000)]
    /\ Len(ret.result) = 3

(* C10: getTransitions leaves the caller's array and differential as they  *)
(* were and returns a fresh queue: the queue the caller already holds is   *)
(* not changed by the call, and popping one queue leaves the other alone.  *)
C10_Frame ==
    [][/\ cards' = cards
       /\ ticks' = ticks => differential' = differential
       /\ (ret'.op = "getTransitions" /\ queues' # queues) =>
             /\ queues'[Len(queues')] = [items |-> ret'.result, popped |-> <<>>]
             /\ queues # <<>> =>
                   /\ Len(queues') = 2
                   /\ queues'[1] = queues[Len(queues)]
       /\ (ret'.op = "dequeue" /\ queues' # queues) =>
             /\ Len(queues') = Len(queues)
             /\ \A g \in 1..Len(queues) :
                   g # ret'.handle => queues'[g] = queues[g]]_vars

C10_Witness ==
    /\ ret.op = "dequeue"
    /\ Len(cards) = 2
    /\ Len(queues) = 2
    /\ queues[1].popped # <<>>
    /\ queues[2].popped = <<>>
    /\ queues[2].items # <<>>
    /\ ticks > 0

====
